---- MODULE Spec2Model ----
(***************************************************************************)
(* Model of the SMARTS pipeline of chomper: scan (scanner.rs), the         *)
(* structural parser producing the expression sequence, and the Evaluator  *)
(* (evaluator.rs) that resolves it into the flat atom list and bond list.  *)
(***************************************************************************)
EXTENDS Integers, Sequences, FiniteSets, TLC

\* ------------------------------------------------------------------------
\* Bounds of the model
\* ------------------------------------------------------------------------
MaxSize == 4
MaxIdx == 2
MaxLabel == 1
MaxShape == 8
MaxItems == 6
MaxChain == 3
MaxSib == 2

\* ------------------------------------------------------------------------
\* Data model (smarts.rs)
\* ------------------------------------------------------------------------
Chiral == {"Cw", "Acw", "None"}

BondOrder == {"Single", "Double", "Triple", "Aromatic", "Ring", "Up", "Down"}

Atom(atomic_number, n_hydrogens, charge, chirality, mol_index) ==
    [atomic_number |-> atomic_number, n_hydrogens |-> n_hydrogens,
     charge |-> charge, chirality |-> chirality, mol_index |-> mol_index]

Bond(atom1, atom2, order) ==
    [atom1 |-> atom1, atom2 |-> atom2, order |-> order]

\* Expr: the parser's output consumed by the Evaluator (parser::Expr).  One
\* record shape for the four variants; the fields a variant does not carry
\* hold a fixed filler.
NoAtom == Atom(0, 0, 0, "None", 0)

EAtom(a) == [t |-> "Atom", a |-> a, order |-> "Single", n |-> 0, g |-> <<>>]

EBond(o) == [t |-> "Bond", a |-> NoAtom, order |-> o, n |-> 0, g |-> <<>>]

EGrouping(g) == [t |-> "Grouping", a |-> NoAtom, order |-> "Single", n |-> 0, g |-> g]

EConnect(n) == [t |-> "Connect", a |-> NoAtom, order |-> "Single", n |-> n, g |-> <<>>]

is_atom(e) == e.t = "Atom"

is_connect(e) == e.t = "Connect"

is_grouping(e) == e.t = "Grouping"

\* ------------------------------------------------------------------------
\* Scanner (scanner.rs)
\* ------------------------------------------------------------------------
\* Token: the kind and, for Atom, HCount, Digit and Plus, the count it carries
Token(k, v) == [k |-> k, v |-> v]

DigitChars == <<"0", "1", "2", "3", "4", "5", "6", "7", "8", "9">>

is_ascii_digit(c) == \E d \in 1..10 : DigitChars[d] = c

DigitValue(c) == (CHOOSE d \in 1..10 : DigitChars[d] = c) - 1

RECURSIVE DigitsEnd(_, _)
\* get_digits: the position after the run of digits that starts at p
DigitsEnd(cs, p) ==
    IF p <= Len(cs) /\ is_ascii_digit(cs[p]) THEN DigitsEnd(cs, p + 1) ELSE p

\* get_digits: the digits collected from position p on
get_digits(cs, p) == SubSeq(cs, p, DigitsEnd(cs, p) - 1)

RECURSIVE ParseDigits(_, _)
\* str::parse::<usize> on a run of digits, acc being the value read so far
ParseDigits(ds, acc) ==
    IF ds = <<>> THEN acc
    ELSE ParseDigits(Tail(ds), acc * 10 + DigitValue(Head(ds)))

\* mutant of parse_usize: only the first digit of the run is read
parse_usize_first(ds) == DigitValue(Head(ds))

\* digits.parse().unwrap() on a non-empty run of digits
parse_usize(ds) == ParseDigits(ds, 0)

Punctuation ==
    [c \in {"[", "]", "(", ")", ":", "-", "@", "=", "\\", "/"} |->
        CASE c = "[" -> "LBrack"
          [] c = "]" -> "RBrack"
          [] c = "(" -> "LParen"
          [] c = ")" -> "RParen"
          [] c = ":" -> "Colon"
          [] c = "-" -> "Dash"
          [] c = "@" -> "At"
          [] c = "=" -> "DoubleBond"
          [] c = "\\" -> "DownBond"
          [] c = "/" -> "UpBond"]

\* mutant of ScanEnd: the end-of-input token is pushed twice
ScanEndTwice(ret) == Append(Append(ret, Token("End", 0)), Token("End", 0))

\* ret.push(T::End); ret
ScanEnd(ret) == Append(ret, Token("End", 0))

RECURSIVE ScanFrom(_, _, _)
\* the loop of scan from position p with ret the tokens pushed so far; ok is
\* FALSE when scan panics on an unrecognized character
ScanFrom(cs, p, ret) ==
    IF p > Len(cs) THEN [tokens |-> ScanEnd(ret), ok |-> TRUE]
    ELSE LET c == cs[p]
             ds == get_digits(cs, p + 1)
             q == DigitsEnd(cs, p + 1)
         IN IF c \in DOMAIN Punctuation
            THEN ScanFrom(cs, p + 1, Append(ret, Token(Punctuation[c], 0)))
            ELSE IF c = "#"
            THEN ScanFrom(cs, q, Append(ret,
                     IF ds = <<>> THEN Token("TripleBond", 0)
                     ELSE Token("Atom", parse_usize(ds))))
            ELSE IF c = "H"
            THEN ScanFrom(cs, q, Append(ret,
                     Token("HCount", IF ds = <<>> THEN 1 ELSE parse_usize(ds))))
            ELSE IF c = "+"
            THEN ScanFrom(cs, q, Append(ret,
                     Token("Plus", IF ds = <<>> THEN 1 ELSE parse_usize(ds))))
            ELSE IF is_ascii_digit(c)
            THEN ScanFrom(cs, q, Append(ret, Token("Digit", parse_usize(<<c>> \o ds))))
            ELSE [tokens |-> ret, ok |-> FALSE]

\* scan(s)
scan(cs) == ScanFrom(cs, 1, <<>>)

\* ------------------------------------------------------------------------
\* Parser (parser.rs).  cur counts the tokens consumed: peek is tokens[cur + 1]
\* ------------------------------------------------------------------------
\* Parser::peek
peek(ts, c) == ts[c + 1]

\* mutant of advance: the cursor moves on the End token too
advance_always(ts, c) == c + 1

\* Parser::advance: the cursor after the call; it stays on the End token
advance(ts, c) == IF peek(ts, c).k = "End" THEN c ELSE c + 1

\* Parser::advance: the token the call returns, self.peek().clone()
advance_ret(ts, c) == peek(ts, c)

\* mutant of AtomIndex: the label after the separator is not recorded
AtomIndexDropped(a, i) == a

\* Parser::atom, the Colon arm: mol_index = i
AtomIndex(a, i) == [a EXCEPT !.mol_index = i]

\* mutant of AtomEof: the atom read so far is returned
AtomEofReturned(a, c) == [atom |-> a, cur |-> c, ok |-> TRUE]

\* Parser::atom, the End arm: panic!("EOF while parsing atom")
AtomEof(a, c) == [atom |-> a, cur |-> c, ok |-> FALSE]

RECURSIVE AtomLoop(_, _, _)
\* the loop of Parser::atom with a the fields set so far
AtomLoop(ts, c, a) ==
    LET t == peek(ts, c)
        c1 == advance(ts, c)
    IN CASE t.k = "Atom" -> AtomLoop(ts, c1, [a EXCEPT !.atomic_number = t.v])
         [] t.k = "HCount" -> AtomLoop(ts, c1, [a EXCEPT !.n_hydrogens = t.v])
         [] t.k = "Colon" ->
                IF peek(ts, c1).k = "Digit"
                THEN AtomLoop(ts, advance(ts, c1), AtomIndex(a, peek(ts, c1).v))
                ELSE [atom |-> a, cur |-> advance(ts, c1), ok |-> FALSE]
         [] t.k = "Plus" -> AtomLoop(ts, c1, [a EXCEPT !.charge = t.v])
         [] t.k = "Dash" ->
                IF peek(ts, c1).k = "Digit"
                THEN AtomLoop(ts, advance(ts, c1),
                              [a EXCEPT !.charge = 0 - peek(ts, c1).v])
                ELSE AtomLoop(ts, c1, [a EXCEPT !.charge = 0 - 1])
         [] t.k = "At" -> AtomLoop(ts, c1, [a EXCEPT !.chirality = "Acw"])
         [] t.k = "AtAt" -> AtomLoop(ts, c1, [a EXCEPT !.chirality = "Cw"])
         [] t.k = "RBrack" -> [atom |-> a, cur |-> c1, ok |-> TRUE]
         [] t.k = "End" -> AtomEof(a, c1)
         [] OTHER -> [atom |-> a, cur |-> c1, ok |-> FALSE]

\* Parser::atom: the LBrack is discarded, then the fields are read up to RBrack
ParserAtom(ts, c) == AtomLoop(ts, advance(ts, c), NoAtom)

\* the bond of the parser: unresolved endpoints, an order, a ring marker
\* (ring_marker None is -1)
PBond(atom1, atom2, order, ring_marker) ==
    [atom1 |-> atom1, atom2 |-> atom2, order |-> order, ring_marker |-> ring_marker]

BondSymbol ==
    [k \in {"Dash", "DoubleBond", "Colon", "TripleBond", "At", "DownBond", "UpBond"} |->
        CASE k = "Dash" -> "Single"
          [] k = "DoubleBond" -> "Double"
          [] k = "Colon" -> "Aromatic"
          [] k = "TripleBond" -> "Triple"
          [] k = "At" -> "Ring"
          [] k = "DownBond" -> "Down"
          [] k = "UpBond" -> "Up"]

RECURSIVE BondLoop(_, _, _)
\* the loop of Parser::bond with b the bond built so far
BondLoop(ts, c, b) ==
    LET t == peek(ts, c)
        c1 == advance(ts, c)
    IN IF t.k \in {"LBrack", "RParen", "LParen"} THEN [bond |-> b, cur |-> c, ok |-> TRUE]
       ELSE IF t.k \in DOMAIN BondSymbol
       THEN BondLoop(ts, c1, [b EXCEPT !.order = BondSymbol[t.k]])
       ELSE IF t.k = "Digit" THEN BondLoop(ts, c1, [b EXCEPT !.ring_marker = t.v])
       ELSE IF t.k = "End" THEN [bond |-> b, cur |-> c1, ok |-> TRUE]
       ELSE [bond |-> b, cur |-> c1, ok |-> FALSE]

\* Parser::bond
ParserBond(ts, c) == BondLoop(ts, c, PBond(0, 0, "Single", 0 - 1))

RECURSIVE ParseLoop(_, _, _, _, _)
\* the loop of Parser::parse with the atoms, the bonds and atom1 so far;
\* Parser::grouping is the LParen arm
ParseLoop(ts, c, as, bs, atom1) ==
    LET t == peek(ts, c)
    IN IF t.k = "End" \/ t.k = "RParen"
       THEN [atoms |-> as, bonds |-> bs, cur |-> c, ok |-> TRUE]
       ELSE IF t.k = "LBrack"
       THEN LET r == ParserAtom(ts, c)
            IN IF ~r.ok \/ (as # <<>> /\ bs = <<>>)
               THEN [atoms |-> as, bonds |-> bs, cur |-> r.cur, ok |-> FALSE]
               ELSE ParseLoop(ts, r.cur, Append(as, r.atom),
                        IF as # <<>>
                        THEN [bs EXCEPT ![Len(bs)].atom2 = r.atom.mol_index]
                        ELSE bs,
                        r.atom.mol_index)
       ELSE IF t.k = "LParen"
       THEN LET r == ParseLoop(ts, advance(ts, c), <<>>, <<>>, 0)
            IN IF ~r.ok THEN [atoms |-> as, bonds |-> bs, cur |-> r.cur, ok |-> FALSE]
               ELSE ParseLoop(ts, advance(ts, r.cur), as \o r.atoms, bs \o r.bonds, atom1)
       ELSE LET r == ParserBond(ts, c)
            IN IF ~r.ok THEN [atoms |-> as, bonds |-> bs, cur |-> r.cur, ok |-> FALSE]
               ELSE ParseLoop(ts, r.cur, as, Append(bs, [r.bond EXCEPT !.atom1 = atom1]),
                              atom1)

\* Parser::new(tokens).parse() of parser.rs: the atoms and the bonds
ParserParse(ts) == ParseLoop(ts, 0, <<>>, <<>>, 0)

RECURSIVE ExprLoop(_, _, _)
\* the loop of the parse that yields the expression sequence: an atom
\* descriptor, a grouping, a connector for a bare integer, else a bond order
\* read from exactly one token
ExprLoop(ts, c, es) ==
    LET t == peek(ts, c)
    IN IF t.k = "End" \/ t.k = "RParen" THEN [exprs |-> es, cur |-> c, ok |-> TRUE]
       ELSE IF t.k = "LBrack"
       THEN LET r == ParserAtom(ts, c)
            IN IF ~r.ok THEN [exprs |-> es, cur |-> r.cur, ok |-> FALSE]
               ELSE ExprLoop(ts, r.cur, Append(es, EAtom(r.atom)))
       ELSE IF t.k = "LParen"
       THEN LET r == ExprLoop(ts, advance(ts, c), <<>>)
            IN IF ~r.ok THEN [exprs |-> es, cur |-> r.cur, ok |-> FALSE]
               ELSE ExprLoop(ts, advance(ts, r.cur), Append(es, EGrouping(r.exprs)))
       ELSE IF t.k = "Digit"
       THEN ExprLoop(ts, advance(ts, c), Append(es, EConnect(t.v)))
       ELSE IF t.k \in DOMAIN BondSymbol
       THEN ExprLoop(ts, advance(ts, c), Append(es, EBond(BondSymbol[t.k])))
       ELSE [exprs |-> es, cur |-> advance(ts, c), ok |-> FALSE]

\* the parse whose result Smarts::parse hands to Evaluator::new
ParseExprs(ts) == ExprLoop(ts, 0, <<>>)

\* ------------------------------------------------------------------------
\* Evaluator helpers (evaluator.rs)
\* ------------------------------------------------------------------------
RECURSIVE PrevAtomFrom(_, _)
\* the loop of prev_atom: positions p, p-1, ..., 1 (1-based); 0 is None
PrevAtomFrom(exprs, p) ==
    IF p = 0 THEN 0
    ELSE IF is_atom(exprs[p]) THEN p
    ELSE PrevAtomFrom(exprs, p - 1)

\* mutant of prev_atom: the search forgets .rev() and returns the first atom
prev_atom_first(exprs, c) ==
    IF c = 0 THEN 0
    ELSE LET S == {p \in 1..(c - 1) : is_atom(exprs[p])}
         IN IF S = {} THEN 0 ELSE CHOOSE p \in S : \A q \in S : p <= q

\* prev_atom(exprs, cur): position (1-based) of the first atom occurring
\* before cur, 0 for None.  The code's 0-based range (0..cur-1).rev() is the
\* 1-based range cur-1, ..., 1.
prev_atom(exprs, c) ==
    IF c = 0 THEN 0 ELSE PrevAtomFrom(exprs, c - 1)

\* ctab: HashMap<usize, Vec<usize>>, a function from the inserted labels to
\* their stacks.
\* mutant of CtabPush: the entry is overwritten instead of pushed onto
CtabPushOverwrite(tab, n, idx) ==
    [k \in DOMAIN tab \cup {n} |-> IF k = n THEN <<idx>> ELSE tab[k]]

\* mutant of CtabPush: the label is pushed in place of the atom's index
CtabPushLabel(tab, n, idx) ==
    [k \in DOMAIN tab \cup {n} |->
        IF k = n
        THEN (IF n \in DOMAIN tab THEN Append(tab[n], n) ELSE <<n>>)
        ELSE tab[k]]

\* self.ctab.entry(n).or_insert(Vec::new()).push(idx)
CtabPush(tab, n, idx) ==
    [k \in DOMAIN tab \cup {n} |->
        IF k = n
        THEN (IF n \in DOMAIN tab THEN Append(tab[n], idx) ELSE <<idx>>)
        ELSE tab[k]]

\* get_connection panics when the label has no entry or an empty stack
CanGetConnection(tab, n) == n \in DOMAIN tab /\ Len(tab[n]) > 0

\* mutant of ConnectionValue: the oldest pending index is taken (a queue)
ConnectionValueFifo(tab, n) == Head(tab[n])

\* the value returned by get_connection: Vec::pop returns the last element
ConnectionValue(tab, n) == tab[n][Len(tab[n])]

\* mutant of ConnectionRest: the stack is read but not popped
ConnectionRestKeep(tab, n) == tab

\* the table after get_connection: the last element is removed
ConnectionRest(tab, n) ==
    [tab EXCEPT ![n] = SubSeq(tab[n], 1, Len(tab[n]) - 1)]

\* mutant of AtomsPush: the atom is put in front
AtomsPushFront(as, a) == <<a>> \o as

\* self.atoms.push(a)
AtomsPush(as, a) == Append(as, a)

Min(x, y) == IF x <= y THEN x ELSE y

Max(x, y) == IF x >= y THEN x ELSE y

\* mutant of GroupingBond: the pair is stored as resolved, not normalised
GroupingBondRaw(atom1, atom2, order) == Bond(atom1, atom2, order)

\* the bond built in Evaluator::grouping: endpoints normalised to (min, max)
GroupingBond(atom1, atom2, order) ==
    Bond(Min(atom1, atom2), Max(atom1, atom2), order)

\* mutant of BondTarget: a missing next expression gives endpoint 0
BondTargetDefault(es, c) ==
    IF c >= Len(es) THEN [kind |-> "atom", v |-> 0]
    ELSE IF is_atom(es[c + 1]) THEN [kind |-> "atom", v |-> es[c + 1].a.mol_index]
    ELSE IF is_connect(es[c + 1]) THEN [kind |-> "connect", v |-> es[c + 1].n]
    ELSE [kind |-> "other", v |-> 0]

\* what a bond finds after c consumed expressions, peek().unwrap(): nothing
\* (the unwrap panics), an Atom with its index, a Connect with its label, or
\* another expression (todo!, unreachable!)
BondTarget(es, c) ==
    IF c >= Len(es) THEN [kind |-> "none", v |-> 0]
    ELSE IF is_atom(es[c + 1]) THEN [kind |-> "atom", v |-> es[c + 1].a.mol_index]
    ELSE IF is_connect(es[c + 1]) THEN [kind |-> "connect", v |-> es[c + 1].n]
    ELSE [kind |-> "other", v |-> 0]

\* mutant of TopBond: the endpoints are swapped
TopBondSwapped(atom1, atom2, order) == Bond(atom2, atom1, order)

\* the bond built in Evaluator::bond: endpoints as resolved
TopBond(atom1, atom2, order) == Bond(atom1, atom2, order)

\* ------------------------------------------------------------------------
\* State
\* ------------------------------------------------------------------------
VARIABLES
    items,    \* the pattern as written: the items the input string was built from
    chars,    \* the input string of Smarts::parse, a sequence of characters
    tokens,   \* the token sequence returned by scan
    legacy,   \* the (atoms, bonds) that Parser::parse of parser.rs returns
    exprs,    \* Evaluator.exprs
    cur,      \* Evaluator.cur
    atoms,    \* Evaluator.atoms
    bonds,    \* Evaluator.bonds
    ctab,     \* Evaluator.ctab
    stack,    \* the active calls of Evaluator::grouping: [g, i] per call
    status    \* "scan", "parse", "running", "done" (eval returned) or "panic"

vars == <<items, chars, tokens, legacy, exprs, cur, atoms, bonds, ctab, stack, status>>

input == <<items, chars, tokens, legacy, exprs>>

\* a panic (unwrap on None, todo!, unreachable!, panic!) with the cursor at c
Panic(c) ==
    /\ status' = "panic"
    /\ cur' = c
    /\ UNCHANGED <<input, atoms, bonds, ctab, stack>>

\* the value of legacy before Parser::parse has run
NoLegacy == [atoms |-> <<>>, bonds |-> <<>>, cur |-> 0 - 1, ok |-> TRUE]

AtTop == status = "running" /\ stack = <<>>

\* Evaluator::at_end
at_end == cur = Len(exprs)

\* ------------------------------------------------------------------------
\* Evaluator::eval, one iteration of its loop per action
\* ------------------------------------------------------------------------
\* the loop ends and eval returns (atoms, bonds)
EvalReturn ==
    /\ AtTop
    /\ at_end
    /\ status' = "done"
    /\ UNCHANGED <<input, cur, atoms, bonds, ctab, stack>>

\* inner -> Evaluator::atom
EvalAtom ==
    /\ AtTop
    /\ ~at_end
    /\ is_atom(exprs[cur + 1])
    /\ LET a == exprs[cur + 1].a
           c1 == cur + 1
           opens == c1 < Len(exprs) /\ is_connect(exprs[c1 + 1])
       IN /\ cur' = IF opens THEN c1 + 1 ELSE c1
          /\ ctab' = IF opens THEN CtabPush(ctab, exprs[c1 + 1].n, a.mol_index)
                     ELSE ctab
          /\ atoms' = AtomsPush(atoms, a)
    /\ UNCHANGED <<input, bonds, stack, status>>

\* inner -> Evaluator::bond
EvalBond ==
    /\ AtTop
    /\ ~at_end
    /\ exprs[cur + 1].t = "Bond"
    /\ LET order == exprs[cur + 1].order
           c1 == cur + 1
           p == prev_atom(exprs, c1)
           nx == BondTarget(exprs, c1)
       IN IF p = 0 THEN Panic(c1)
          ELSE LET atom1 == exprs[p].a.mol_index
               IN IF nx.kind = "atom"
                  THEN /\ bonds' = Append(bonds, TopBond(atom1, nx.v, order))
                       /\ cur' = c1
                       /\ UNCHANGED <<input, atoms, ctab, stack, status>>
                  ELSE IF nx.kind = "connect"
                  THEN IF CanGetConnection(ctab, nx.v)
                       THEN /\ bonds' = Append(bonds,
                                   TopBond(atom1, ConnectionValue(ctab, nx.v), order))
                            /\ ctab' = ConnectionRest(ctab, nx.v)
                            /\ cur' = c1 + 1
                            /\ UNCHANGED <<input, atoms, stack, status>>
                       ELSE Panic(c1 + 1)
                  ELSE Panic(c1)

\* inner -> Evaluator::grouping: the call is entered
EvalGrouping ==
    /\ AtTop
    /\ ~at_end
    /\ is_grouping(exprs[cur + 1])
    /\ cur' = cur + 1
    /\ stack' = <<[g |-> exprs[cur + 1].g, i |-> 0]>>
    /\ UNCHANGED <<input, atoms, bonds, ctab, status>>

\* inner: Expr::Connect(_) => todo!()
EvalConnect ==
    /\ AtTop
    /\ ~at_end
    /\ is_connect(exprs[cur + 1])
    /\ Panic(cur + 1)

\* ------------------------------------------------------------------------
\* Evaluator::grouping, one iteration of its loop per action
\* ------------------------------------------------------------------------
InGrouping == status = "running" /\ stack # <<>>

Top == stack[Len(stack)]

\* mutant of Advance: the iterator stays where it is
AdvanceStuck(i) == stack

\* the top call with its iterator advanced to i
Advance(i) == [stack EXCEPT ![Len(stack)].i = i]

GroupingPanic ==
    /\ status' = "panic"
    /\ UNCHANGED <<input, cur, atoms, bonds, ctab, stack>>

\* giter is exhausted: the call returns to its caller
GroupingReturn ==
    /\ InGrouping
    /\ Top.i = Len(Top.g)
    /\ stack' = SubSeq(stack, 1, Len(stack) - 1)
    /\ UNCHANGED <<input, cur, atoms, bonds, ctab, status>>

GroupingAtom ==
    /\ InGrouping
    /\ Top.i < Len(Top.g)
    /\ is_atom(Top.g[Top.i + 1])
    /\ LET g == Top.g
           i1 == Top.i + 1
           a == g[i1].a
           opens == i1 < Len(g) /\ is_connect(g[i1 + 1])
       IN /\ stack' = Advance(IF opens THEN i1 + 1 ELSE i1)
          /\ ctab' = IF opens THEN CtabPush(ctab, g[i1 + 1].n, a.mol_index)
                     ELSE ctab
          /\ atoms' = AtomsPush(atoms, a)
    /\ UNCHANGED <<input, cur, bonds, status>>

GroupingBondStep ==
    /\ InGrouping
    /\ Top.i < Len(Top.g)
    /\ Top.g[Top.i + 1].t = "Bond"
    /\ LET g == Top.g
           i1 == Top.i + 1
           order == g[i1].order
           p == prev_atom(g, i1)
           nx == BondTarget(g, i1)
       IN IF p = 0 /\ atoms = <<>> THEN GroupingPanic
          ELSE LET atom1 == IF p # 0 THEN g[p].a.mol_index
                            ELSE atoms[Len(atoms)].mol_index
               IN IF nx.kind = "atom"
                  THEN /\ bonds' = Append(bonds, GroupingBond(atom1, nx.v, order))
                       /\ stack' = Advance(i1)
                       /\ UNCHANGED <<input, cur, atoms, ctab, status>>
                  ELSE IF nx.kind = "connect"
                  THEN IF CanGetConnection(ctab, nx.v)
                       THEN /\ bonds' = Append(bonds,
                                   GroupingBond(atom1, ConnectionValue(ctab, nx.v), order))
                            /\ ctab' = ConnectionRest(ctab, nx.v)
                            /\ stack' = Advance(i1 + 1)
                            /\ UNCHANGED <<input, cur, atoms, status>>
                       ELSE GroupingPanic
                  ELSE GroupingPanic

\* Expr::Grouping(h) => self.grouping(h.clone())
GroupingGrouping ==
    /\ InGrouping
    /\ Top.i < Len(Top.g)
    /\ is_grouping(Top.g[Top.i + 1])
    /\ stack' = Append(Advance(Top.i + 1), [g |-> Top.g[Top.i + 1].g, i |-> 0])
    /\ UNCHANGED <<input, cur, atoms, bonds, ctab, status>>

\* Expr::Connect(_) => panic!("{i}")
GroupingConnect ==
    /\ InGrouping
    /\ Top.i < Len(Top.g)
    /\ is_connect(Top.g[Top.i + 1])
    /\ GroupingPanic

NextEval ==
    \/ EvalReturn
    \/ EvalAtom
    \/ EvalBond
    \/ EvalGrouping
    \/ EvalConnect
    \/ GroupingReturn
    \/ GroupingAtom
    \/ GroupingBondStep
    \/ GroupingGrouping
    \/ GroupingConnect

\* ------------------------------------------------------------------------
\* Inputs of the Evaluator: bounded sets of expression sequences
\* ------------------------------------------------------------------------
\* an atom expression carrying molecule-local index i
AtomOf(i) == Atom(6, 0, 0, "None", i)

\* the leaves of the small exhaustive family: every index, two orders, every label
Leaves ==
    {EAtom(AtomOf(i)) : i \in 1..MaxIdx}
        \cup {EBond(o) : o \in {"Single", "Double"}}
        \cup {EConnect(n) : n \in 1..MaxLabel}

\* the leaves of the shapes: one atom slot (numbered afterwards), one order,
\* one label
ShapeLeaves == {EAtom(NoAtom), EBond("Single"), EConnect(1)}

\* the two parentheses, written flat, that delimit a grouping
Open == [t |-> "(", a |-> NoAtom, order |-> "Single", n |-> 0, g |-> <<>>]

Close == [t |-> ")", a |-> NoAtom, order |-> "Single", n |-> 0, g |-> <<>>]

\* the flat sequences over L of length at most n
FlatUpTo(L, n) == UNION {[1..k -> L] : k \in 0..n}

RECURSIVE Balanced(_, _, _)
\* every Close of f[p..] has its Open and every Open its Close, d being open
Balanced(f, p, d) ==
    IF p > Len(f) THEN d = 0
    ELSE IF f[p] = Open THEN Balanced(f, p + 1, d + 1)
    ELSE IF f[p] = Close THEN d > 0 /\ Balanced(f, p + 1, d - 1)
    ELSE Balanced(f, p + 1, d)

RECURSIVE TreeFrom(_, _)
\* the expression sequence written flat in f[p..], up to the Close that ends
\* it: each Open ... Close becomes one Grouping
TreeFrom(f, p) ==
    IF p > Len(f) \/ f[p] = Close THEN [es |-> <<>>, p |-> p]
    ELSE IF f[p] = Open
    THEN LET inner == TreeFrom(f, p + 1)
             rest == TreeFrom(f, inner.p + 1)
         IN [es |-> <<EGrouping(inner.es)>> \o rest.es, p |-> rest.p]
    ELSE LET rest == TreeFrom(f, p + 1)
         IN [es |-> <<f[p]>> \o rest.es, p |-> rest.p]

TreeOf(f) == TreeFrom(f, 1).es

RECURSIVE Number(_, _)
\* the atoms of es numbered k, k+1, ... in left-to-right order of appearance
Number(es, k) ==
    IF es = <<>> THEN [es |-> <<>>, k |-> k]
    ELSE LET h == Head(es)
         IN IF is_atom(h)
            THEN LET r == Number(Tail(es), k + 1)
                 IN [es |-> <<EAtom(AtomOf(k))>> \o r.es, k |-> r.k]
            ELSE IF is_grouping(h)
            THEN LET hg == Number(h.g, k)
                     r == Number(Tail(es), hg.k)
                 IN [es |-> <<EGrouping(hg.es)>> \o r.es, k |-> r.k]
            ELSE LET r == Number(Tail(es), k)
                 IN [es |-> <<h>> \o r.es, k |-> r.k]

\* every expression sequence written with at most MaxSize leaves and
\* parentheses
IsSmallInput(es) ==
    \E f \in FlatUpTo(Leaves \cup {Open, Close}, MaxSize) :
        Balanced(f, 1, 0) /\ es = TreeOf(f)

\* every expression sequence that starts with an atom, written with at most
\* MaxShape shape leaves and parentheses, its atoms numbered 1, 2, ...
IsShapeInput(es) ==
    \E f \in FlatUpTo(ShapeLeaves \cup {Open, Close}, MaxShape - 1) :
        Balanced(f, 1, 0) /\ es = Number(<<EAtom(NoAtom)>> \o TreeOf(f), 1).es

\* an atom, with or without a label opened at it, followed by two groupings
\* of at most MaxSib shape leaves each, the atoms numbered 1, 2, ...
IsSiblingInput(es) ==
    \E pre \in {<<>>, <<EConnect(1)>>} :
        \E g1, g2 \in FlatUpTo(ShapeLeaves, MaxSib) :
            es = Number(<<EAtom(NoAtom)>> \o pre \o <<EGrouping(g1), EGrouping(g2)>>, 1).es

\* ------------------------------------------------------------------------
\* The Evaluator on its own: Evaluator::new(exprs).eval()
\* ------------------------------------------------------------------------
InitEval ==
    /\ items = <<>>
    /\ chars = <<>>
    /\ tokens = <<>>
    /\ legacy = NoLegacy
    /\ status = "running"
    /\ cur = 0
    /\ atoms = <<>>
    /\ bonds = <<>>
    /\ ctab = <<>>
    /\ stack = <<>>
    /\ (IsSmallInput(exprs) \/ IsShapeInput(exprs) \/ IsSiblingInput(exprs))

Spec == InitEval /\ [][NextEval]_vars

\* ------------------------------------------------------------------------
\* Inputs of Smarts::parse: bounded sets of pattern strings, each written
\* item by item
\* ------------------------------------------------------------------------
\* an atom descriptor [#<an>H<h>:<idx>]; H is left out for h = 0, written
\* bare for h = 1; the label is left out for idx = 0
AtomItem(an, h, idx) == [k |-> "atom", an |-> an, h |-> h, idx |-> idx, c |-> ""]

\* an atom descriptor with a stereo marker c, "@" or "@@"
StereoItem(an, h, idx, c) == [k |-> "atom", an |-> an, h |-> h, idx |-> idx, c |-> c]

\* an atom descriptor that the end of the input cuts short, c telling what
\* was written last: the bracket, the atomic number, H, the label separator,
\* the index ("i"), a charge sign or a stereo marker
CutItem(c) ==
    [k |-> "cut", an |-> IF c = "[" THEN 0 ELSE 6, h |-> IF c = "H" THEN 1 ELSE 0,
     idx |-> IF c = "i" THEN 1 ELSE 0, c |-> c]

CutStages == {"[", "#", "H", ":", "i", "-", "@"}

\* one punctuation character: a bond symbol or a parenthesis
SymItem(c) == [k |-> "sym", an |-> 0, h |-> 0, idx |-> 0, c |-> c]

\* a ring-closure label
LabelItem(n) == [k |-> "label", an |-> 0, h |-> 0, idx |-> n, c |-> ""]

RECURSIVE Digits(_)
\* the decimal digits of n
Digits(n) ==
    IF n < 10 THEN <<DigitChars[n + 1]>>
    ELSE Digits(n \div 10) \o <<DigitChars[(n % 10) + 1]>>

RenderItem(it) ==
    CASE it.k = "atom" ->
            <<"[", "#">> \o Digits(it.an)
                \o (IF it.c = "@" THEN <<"@">>
                    ELSE IF it.c = "@@" THEN <<"@", "@">> ELSE <<>>)
                \o (IF it.h = 0 THEN <<>>
                    ELSE IF it.h = 1 THEN <<"H">> ELSE <<"H">> \o Digits(it.h))
                \o (IF it.idx = 0 THEN <<>> ELSE <<":">> \o Digits(it.idx))
                \o <<"]">>
      [] it.k = "cut" ->
            <<"[">> \o (IF it.an = 0 THEN <<>> ELSE <<"#">> \o Digits(it.an))
                \o (CASE it.c = "H" -> <<"H">>
                       [] it.c = ":" -> <<":">>
                       [] it.c = "i" -> <<":">> \o Digits(it.idx)
                       [] it.c = "-" -> <<"-">>
                       [] it.c = "@" -> <<"@">>
                       [] OTHER -> <<>>)
      [] it.k = "sym" -> <<it.c>>
      [] it.k = "label" -> Digits(it.idx)

RECURSIVE Render(_)
\* the pattern string written by the items
Render(its) == IF its = <<>> THEN <<>> ELSE RenderItem(Head(its)) \o Render(Tail(its))

BondChars == {"-", "=", ":", "#", "@", "\\", "/"}

\* the order each bond symbol stands for
OrderOfChar(c) ==
    CASE c = "-" -> "Single"
      [] c = "=" -> "Double"
      [] c = ":" -> "Aromatic"
      [] c = "#" -> "Triple"
      [] c = "@" -> "Ring"
      [] c = "\\" -> "Down"
      [] c = "/" -> "Up"

\* the atom an atom descriptor stands for
AtomOfItem(it) ==
    Atom(it.an, it.h, 0,
         IF it.c = "@" THEN "Acw" ELSE IF it.c = "@@" THEN "Cw" ELSE "None",
         it.idx)

\* the descriptors chains are written with: a hydrogen count with and without
\* digits and none, a one-digit and a two-digit index and none
ChainAtoms == {AtomItem(6, 3, 1), AtomItem(16, 0, 0)}

\* the descriptors written next to a stereo or a cut descriptor
PairAtoms == ChainAtoms \cup {AtomItem(7, 1, 10)}

\* a linear chain: atom, bond, atom, ..., bond, atom
IsChain(its) ==
    /\ Len(its) % 2 = 1
    /\ \A p \in 1..Len(its) :
          IF p % 2 = 1 THEN its[p].k = "atom"
          ELSE its[p].k = "sym" /\ its[p].c \in BondChars

\* the chains of at most MaxChain atoms over every descriptor and bond symbol
IsChainInput(its) ==
    \E n \in 1..MaxChain :
        \E as \in [1..n -> ChainAtoms], bs \in [1..(n - 1) -> BondChars] :
            its = [p \in 1..(2 * n - 1) |->
                      IF p % 2 = 1 THEN as[(p + 1) \div 2] ELSE SymItem(bs[p \div 2])]

\* what the patterns are written with: an atom slot, a bond symbol, the
\* parentheses and a ring-closure label
PatternItems ==
    {AtomItem(6, 0, 0), SymItem("="), SymItem("("), SymItem(")"), LabelItem(1)}

\* the atom descriptors of its labelled j+1, j+2, ... from left to right
NumberItems(its) ==
    [p \in 1..Len(its) |->
        IF its[p].k = "atom"
        THEN AtomItem(its[p].an, its[p].h,
                      Cardinality({q \in 1..p : its[q].k = "atom"}))
        ELSE its[p]]

\* the patterns of at most MaxItems items that start with an atom, the atoms
\* labelled 1, 2, ... from left to right
IsPatternInput(its) ==
    \E f \in FlatUpTo(PatternItems, MaxItems - 1) :
        its = NumberItems(<<AtomItem(6, 0, 0)>> \o f)

StereoAtoms ==
    {StereoItem(6, 1, 1, "@"), StereoItem(6, 1, 2, "@@"), StereoItem(7, 0, 0, "@@")}

\* one or two atoms joined by a bond symbol, the first with a stereo marker
IsStereoInput(its) ==
    \/ \E a \in StereoAtoms : its = <<a>>
    \/ \E a \in StereoAtoms, b \in StereoAtoms \cup PairAtoms, c \in {"-", "@"} :
          its = <<a, SymItem(c), b>>

\* an atom descriptor cut short by the end of the input, alone or after an
\* atom and a bond symbol or after an opening parenthesis
IsCutInput(its) ==
    \E c \in CutStages :
        \/ its = <<CutItem(c)>>
        \/ \E a \in PairAtoms, b \in {"-", "=", "("} : its = <<a, SymItem(b), CutItem(c)>>

\* ------------------------------------------------------------------------
\* Smarts::parse: scan, parse, Evaluator::new(exprs).eval()
\* ------------------------------------------------------------------------
InitPipe ==
    /\ \/ IsChainInput(items)
       \/ IsPatternInput(items)
       \/ IsStereoInput(items)
       \/ IsCutInput(items)
    /\ chars = Render(items)
    /\ tokens = <<>>
    /\ legacy = NoLegacy
    /\ exprs = <<>>
    /\ cur = 0
    /\ atoms = <<>>
    /\ bonds = <<>>
    /\ ctab = <<>>
    /\ stack = <<>>
    /\ status = "scan"

\* let tokens = scan(s)
Scan ==
    /\ status = "scan"
    /\ LET r == scan(chars)
       IN /\ tokens' = r.tokens
          /\ status' = IF r.ok THEN "parse" ELSE "panic"
    /\ UNCHANGED <<items, chars, legacy, exprs, cur, atoms, bonds, ctab, stack>>

\* let exprs = parser.parse(); Evaluator::new(exprs)
Parse ==
    /\ status = "parse"
    /\ LET r == ParseExprs(tokens)
       IN /\ exprs' = r.exprs
          /\ status' = IF r.ok THEN "running" ELSE "panic"
    /\ legacy' = ParserParse(tokens)
    /\ UNCHANGED <<items, chars, tokens, cur, atoms, bonds, ctab, stack>>

NextPipe == Scan \/ Parse \/ NextEval

SpecPipe == InitPipe /\ [][NextPipe]_vars

\* Smarts::parse is one sequential call that runs until it returns or panics:
\* while a step is possible, one is taken.  Scan is enabled exactly when
\* status = "scan" and Parse exactly when status = "parse" (each leaves that
\* status), so the weak fairness of Scan \/ Parse is written with the guard in
\* place of ENABLED; the evaluator's steps get WF directly
SpecPipeFair ==
    /\ SpecPipe
    /\ []<>(status \notin {"scan", "parse"}) \/ []<><<Scan \/ Parse>>_vars
    /\ WF_vars(NextEval)

\* ------------------------------------------------------------------------
\* What the pattern as written says, read off the input without evaluating it
\* ------------------------------------------------------------------------
RECURSIVE Flatten(_)
\* the atoms, bonds and connectors of es in left-to-right order of
\* appearance, the groupings opened up
Flatten(es) ==
    IF es = <<>> THEN <<>>
    ELSE IF is_grouping(Head(es)) THEN Flatten(Head(es).g) \o Flatten(Tail(es))
    ELSE <<Head(es)>> \o Flatten(Tail(es))

\* the Atom expressions of es, through all nested groupings, left to right
FlattenAtoms(es) ==
    LET L == SelectSeq(Flatten(es), is_atom)
    IN [p \in 1..Len(L) |-> L[p].a]

RECURSIVE Depth(_)
\* the nesting depth of the groupings of es that hold an atom
Depth(es) ==
    IF es = <<>> THEN 0
    ELSE LET h == Head(es)
             d == IF is_grouping(h) /\ FlattenAtoms(h.g) # <<>>
                  THEN 1 + Depth(h.g) ELSE 0
             r == Depth(Tail(es))
         IN IF d >= r THEN d ELSE r

\* one event of the notation per item read: an atom, an atom that opens
\* label n (Atom followed by Connect n), a bond, a bond that closes label n
\* (Bond followed by Connect n), or a connector that follows neither
Event(e, idx, n, order) == [e |-> e, idx |-> idx, n |-> n, order |-> order]

RECURSIVE Events(_)
\* the events of es in left-to-right order, the groupings opened up
Events(es) ==
    IF es = <<>> THEN <<>>
    ELSE LET h == Head(es)
             follows == Len(es) >= 2 /\ is_connect(es[2])
             rest == IF follows THEN Tail(Tail(es)) ELSE Tail(es)
         IN IF is_grouping(h) THEN Events(h.g) \o Events(Tail(es))
            ELSE IF is_connect(h) THEN <<Event("stray", 0, h.n, "Single")>> \o Events(Tail(es))
            ELSE IF is_atom(h)
            THEN <<Event(IF follows THEN "open" ELSE "atom", h.a.mol_index,
                         IF follows THEN es[2].n ELSE 0, "Single")>> \o Events(rest)
            ELSE <<Event(IF follows THEN "close" ELSE "bond", 0,
                         IF follows THEN es[2].n ELSE 0, h.order)>> \o Events(rest)

\* how many of the events ev[lo..hi] are of kind e with label n
CountEvents(ev, lo, hi, e, n) ==
    Cardinality({q \in lo..hi : ev[q].e = e /\ ev[q].n = n})

\* the opening that a close at event j answers when the labels nest like
\* parentheses: the latest open of the same label before j that has as many
\* opens as closes of the label between it and j; 0 when there is none
Opening(ev, j) ==
    LET n == ev[j].n
        S == {q \in 1..(j - 1) :
                /\ ev[q].e = "open"
                /\ ev[q].n = n
                /\ CountEvents(ev, q + 1, j - 1, "open", n)
                      = CountEvents(ev, q + 1, j - 1, "close", n)}
    IN IF S = {} THEN 0 ELSE CHOOSE q \in S : \A r \in S : r <= q

\* which bond of the output the bond or close at event j yields
BondNumber(ev, j) == Cardinality({q \in 1..j : ev[q].e \in {"bond", "close"}})

RECURSIVE Unread(_)
\* the events of the groupings being evaluated that are not yet read
Unread(k) ==
    IF k = 0 THEN 0
    ELSE Len(Events(SubSeq(stack[k].g, stack[k].i + 1, Len(stack[k].g)))) + Unread(k - 1)

\* the number of events read so far
EventsRead == Len(Events(SubSeq(exprs, 1, cur))) - Unread(Len(stack))

\* the sequence being evaluated and the number of its expressions consumed
CurSeq == IF stack = <<>> THEN exprs ELSE Top.g

CurPos == IF stack = <<>> THEN cur ELSE Top.i

\* the next step evaluates a Bond expression
AtBond ==
    /\ status = "running"
    /\ CurPos < Len(CurSeq)
    /\ CurSeq[CurPos + 1].t = "Bond"

\* the next step evaluates a Bond followed by a Connect: a ring closure
AtClose ==
    /\ AtBond
    /\ CurPos + 2 <= Len(CurSeq)
    /\ is_connect(CurSeq[CurPos + 2])

\* the index of the nearest Atom expression before position p of es, -1 for none
NearestAtomBefore(es, p) ==
    LET S == {q \in 1..(p - 1) : is_atom(es[q])}
    IN IF S = {} THEN 0 - 1
       ELSE es[CHOOSE q \in S : \A r \in S : r <= q].a.mol_index

\* the atom a closing bond starts from: the nearest Atom expression before it
\* in its sequence; for a bond with none before it in its grouping, the atom
\* appended last; -1 for none
ClosingAtom ==
    LET near == NearestAtomBefore(CurSeq, CurPos + 1)
    IN IF near # 0 - 1 THEN near
       ELSE IF stack # <<>> /\ atoms # <<>> THEN atoms[Len(atoms)].mol_index
       ELSE 0 - 1

\* the atom that opened the label the next step closes, -1 for none
OpeningAtom ==
    LET ev == Events(exprs)
        q == Opening(ev, EventsRead + 1)
    IN IF q = 0 THEN 0 - 1 ELSE ev[q].idx

\* the atom before the opening parenthesis of the grouping being evaluated:
\* the nearest Atom expression before the grouping in the enclosing sequence
BeforeGrouping ==
    IF Len(stack) = 1 THEN NearestAtomBefore(exprs, cur)
    ELSE NearestAtomBefore(stack[Len(stack) - 1].g, stack[Len(stack) - 1].i)

RECURSIVE Dangling(_)
\* a Bond is the last expression of es or of a grouping in es
Dangling(es) ==
    IF es = <<>> THEN FALSE
    ELSE \/ es[Len(es)].t = "Bond"
         \/ \E p \in 1..Len(es) : is_grouping(es[p]) /\ Dangling(es[p].g)

Endpoints(b) == {b.atom1, b.atom2}

\* the atoms a chain is written with
ChainAtomsOf(its) ==
    [i \in 1..((Len(its) + 1) \div 2) |-> AtomOfItem(its[2 * i - 1])]

\* the bonds a chain is written with: the i-th symbol joins the i-th atom to
\* the next
ChainBondsOf(its) ==
    [i \in 1..((Len(its) - 1) \div 2) |->
        Bond(its[2 * i - 1].idx, its[2 * i + 1].idx, OrderOfChar(its[2 * i].c))]

\* ------------------------------------------------------------------------
\* Claims
\* ------------------------------------------------------------------------
\* C1: a linear chain atom, bond, atom, ..., bond, atom parses without a
\* panic and yields the atoms in order with the fields written in their
\* brackets and one bond per bond symbol, the i-th joining the i-th atom to
\* the (i+1)-th with the order of the i-th symbol; both from the Evaluator
\* and from Parser::parse of parser.rs (whose bonds carry no ring marker).
C1_LinearChain ==
    IsChain(items) =>
        /\ status # "panic"
        /\ status = "done" =>
              /\ atoms = ChainAtomsOf(items)
              /\ bonds = ChainBondsOf(items)
        /\ status \in {"running", "done"} =>
              /\ legacy.ok
              /\ legacy.atoms = ChainAtomsOf(items)
              /\ legacy.bonds =
                    [i \in 1..Len(ChainBondsOf(items)) |->
                        PBond(ChainBondsOf(items)[i].atom1, ChainBondsOf(items)[i].atom2,
                              ChainBondsOf(items)[i].order, 0 - 1)]

\* a chain of three atoms with two different bond symbols has been parsed
C1_Witness ==
    /\ status = "done"
    /\ IsChain(items)
    /\ Len(items) = 5
    /\ Len(bonds) = 2
    /\ bonds[1].order # bonds[2].order
    /\ bonds[1].atom2 = bonds[2].atom1
    /\ bonds[1].atom1 # bonds[1].atom2

\* C2: when evaluation completes the output atom list holds exactly the Atom
\* expressions of the input, through all nested groupings, in left-to-right
\* order of appearance.
C2_AtomsInOrder == status = "done" => atoms = FlattenAtoms(exprs)

\* an evaluation completed with an atom two groupings deep, a bond and a
\* ring-closure label
C2_Witness ==
    /\ status = "done"
    /\ Depth(exprs) >= 2
    /\ Len(atoms) >= 2
    /\ Len(bonds) >= 1
    /\ ctab # <<>>

\* C3: a Bond that is the first expression of a grouping gets as an endpoint
\* the atom before the grouping's opening parenthesis, the nearest Atom
\* expression before the grouping in the enclosing sequence.
C3_FirstBondOfGrouping ==
    [][(/\ AtBond
        /\ stack # <<>>
        /\ Top.i = 0
        /\ BeforeGrouping # 0 - 1
        /\ Len(bonds') = Len(bonds) + 1)
           => BeforeGrouping \in Endpoints(bonds'[Len(bonds')])]_vars

C6_WitnessReuse ==
    /\ status = "done"
    /\ LET ev == Events(exprs)
       IN \E j1, j2 \in 1..Len(ev) :
             /\ j1 < j2
             /\ ev[j1].e = "close"
             /\ ev[j2].e = "close"
             /\ ev[j1].n = ev[j2].n
             /\ Opening(ev, j1) # 0
             /\ j1 < Opening(ev, j2)

\* C7: a pattern with a dangling bond, a Bond that is the last expression of
\* the pattern or of a grouping, never yields a result; and a result never
\* holds a bond for which the notation has no bond with a following atom or
\* label, nor a bond with endpoint 0 (the atoms of the inputs are numbered
\* from 1).
C7_DanglingBondFails ==
    /\ Dangling(exprs) => status # "done"
    /\ status = "done" => Len(bonds) = BondNumber(Events(exprs), Len(Events(exprs)))
    /\ \A k \in 1..Len(bonds) : 0 \notin Endpoints(bonds[k])

\* the evaluation panicked on a bond that ends the pattern right after an atom
C7_Witness ==
    /\ status = "panic"
    /\ stack = <<>>
    /\ cur = Len(exprs)
    /\ cur >= 2
    /\ exprs[cur].t = "Bond"
    /\ is_atom(exprs[cur - 1])
    /\ bonds = <<>>

\* C8: closing a label with no pending opening (never opened, or every
\* opening already closed) panics at that step: no bond and no atom is
\* appended and the evaluation never returns.
C8_CloseWithoutOpening ==
    [][(AtClose /\ OpeningAtom = 0 - 1)
           => (status' = "panic" /\ bonds' = bonds /\ atoms' = atoms)]_vars

\* the evaluation panicked on the second close of a label opened once
C8_Witness ==
    /\ status = "panic"
    /\ stack = <<>>
    /\ cur >= 2
    /\ is_connect(exprs[cur])
    /\ exprs[cur - 1].t = "Bond"
    /\ exprs[cur].n \in DOMAIN ctab
    /\ ctab[exprs[cur].n] = <<>>
    /\ Len(bonds) = 1

\* the items are atom, "(", atom, ")", bond symbol, atom
IsBranchThenBond(its) ==
    /\ Len(its) = 6
    /\ its[1].k = "atom"
    /\ its[2] = SymItem("(")
    /\ its[3].k = "atom"
    /\ its[4] = SymItem(")")
    /\ its[5].k = "sym" /\ its[5].c \in BondChars
    /\ its[6].k = "atom"

\* C4: a pattern atom a, "(", atom b, ")", bond symbol, atom c, as in
\* [#6:1]([#8:2])=[#7:3], parses to a result with a bond between a and b and
\* a bond of the symbol's order from a to c.
C4_BranchThenBond ==
    (IsBranchThenBond(items) /\ status = "done") =>
        /\ \E k \in 1..Len(bonds) : Endpoints(bonds[k]) = {items[1].idx, items[3].idx}
        /\ \E k \in 1..Len(bonds) :
              bonds[k] = Bond(items[1].idx, items[6].idx, OrderOfChar(items[5].c))

\* es has neither a grouping nor a connector: atoms and bond symbols only
IsFlat(es) == \A p \in 1..Len(es) : is_atom(es[p]) \/ es[p].t = "Bond"

\* C9: a completed evaluation of a pattern without groupings (and without
\* ring-closure labels), whose neighbouring atoms are joined by a bond symbol
\* or by adjacency, has one bond fewer than atoms.
C9_BondCount ==
    (status = "done" /\ IsFlat(exprs) /\ Len(atoms) >= 1) =>
        Len(bonds) = Len(atoms) - 1

\* the indices written in the atom descriptors of its, 0 for an omitted one
WrittenIndices(its) ==
    LET L == SelectSeq(its, LAMBDA it : it.k = "atom")
    IN [p \in 1..Len(L) |-> L[p].idx]

IsDistinct(seq) == \A p, q \in 1..Len(seq) : p # q => seq[p] # seq[q]

MolIndices(as) == [p \in 1..Len(as) |-> as[p].mol_index]

\* C10 as claimed: the mol_index values of the atoms of a result are pairwise
\* distinct.
C10_IndicesDistinct ==
    status = "done" => IsDistinct(MolIndices(atoms))

\* C10 as amended: the mol_index values of the atoms of a result are the
\* indices written in the atom descriptors read, in order and unchanged (0
\* for an omitted index), so they are pairwise distinct whenever the written
\* indices are; the same holds of the atoms Parser::parse returns.
C10_IndicesAsWritten ==
    LET W == WrittenIndices(items)
    IN /\ status = "done" =>
             /\ \E n \in 0..Len(W) : MolIndices(atoms) = SubSeq(W, 1, n)
             /\ IsDistinct(W) => IsDistinct(MolIndices(atoms))
       /\ (status \in {"running", "done"} /\ legacy.ok) =>
             /\ \E n \in 0..Len(W) : MolIndices(legacy.atoms) = SubSeq(W, 1, n)
             /\ IsDistinct(W) => IsDistinct(MolIndices(legacy.atoms))

\* a result with two atoms of distinct written indices, one of them of two
\* digits, and the bond between them
C10_Witness ==
    /\ status = "done"
    /\ Len(atoms) = 2
    /\ IsDistinct(WrittenIndices(items))
    /\ MolIndices(atoms) = WrittenIndices(items)
    /\ \E p \in 1..2 : atoms[p].mol_index >= 10
    /\ Len(bonds) = 1

\* the values of the tokens of kind k, in order
TokenValues(ts, k) ==
    LET L == SelectSeq(ts, LAMBDA t : t.k = k)
    IN [p \in 1..Len(L) |-> L[p].v]

\* the scan has returned a token sequence: the parse is next or has run
Scanned == status = "parse" \/ legacy # NoLegacy

\* C12: the token sequence scan returns is not empty, its last element is
\* the end-of-input token and no earlier element is.
C12_OneEndToken ==
    Scanned =>
        /\ Len(tokens) >= 1
        /\ tokens[Len(tokens)].k = "End"
        /\ \A p \in 1..(Len(tokens) - 1) : tokens[p].k # "End"
        /\ Len(tokens) <= Len(chars) + 1

\* scan has returned the tokens of a pattern with a grouping and a label
C12_Witness ==
    /\ status = "parse"
    /\ Len(tokens) >= 10
    /\ tokens[Len(tokens)] = Token("End", 0)
    /\ \E p \in 1..Len(tokens) : tokens[p].k = "LParen"
    /\ \E p \in 1..Len(tokens) : tokens[p].k = "Digit"

\* the atomic numbers written in the atom descriptors of its
WrittenNumbers(its) ==
    LET L == SelectSeq(its, LAMBDA it : it.k \in {"atom", "cut"} /\ it.an # 0)
    IN [p \in 1..Len(L) |-> L[p].an]

RECURSIVE Shift(_, _)
\* m followed by the decimal digits of n, read as one integer
Shift(m, n) == IF n < 10 THEN m * 10 + n ELSE Shift(m, n \div 10) * 10 + (n % 10)

RECURSIVE IntegersFrom(_, _)
\* the integers written in its outside of "#" and "H", in order: the index of
\* each descriptor that has one, and each run of ring-closure labels written
\* without anything between them, which reads as one integer; run is the value
\* of the run being read, -1 outside of a run
IntegersFrom(its, run) ==
    IF its = <<>> THEN (IF run = 0 - 1 THEN <<>> ELSE <<run>>)
    ELSE LET it == Head(its)
             done == IF run = 0 - 1 THEN <<>> ELSE <<run>>
         IN IF it.k = "label"
            THEN IntegersFrom(Tail(its), IF run = 0 - 1 THEN it.idx ELSE Shift(run, it.idx))
            ELSE IF it.k \in {"atom", "cut"} /\ it.idx # 0
            THEN done \o <<it.idx>> \o IntegersFrom(Tail(its), 0 - 1)
            ELSE done \o IntegersFrom(Tail(its), 0 - 1)

WrittenIntegers(its) == IntegersFrom(its, 0 - 1)

\* C13: a "#" followed by no digit scans to the triple-bond token, and a "#"
\* followed by digits scans to one atomic-number token carrying the value of
\* the whole run of digits, none of the digits becoming an integer token: the
\* Atom tokens carry the atomic numbers written, in order, there is one
\* TripleBond token per "#" bond symbol, and the Digit tokens are the indices
\* and labels written.
C13_HashDisambiguation ==
    Scanned =>
        /\ TokenValues(tokens, "Atom") = WrittenNumbers(items)
        /\ Len(TokenValues(tokens, "TripleBond"))
              = Len(SelectSeq(items, LAMBDA it : it = SymItem("#")))
        /\ TokenValues(tokens, "Digit") = WrittenIntegers(items)

\* scan has returned the tokens of a chain with a two-digit atomic number and
\* a triple bond
C13_Witness ==
    /\ status = "parse"
    /\ \E p \in 1..Len(tokens) : tokens[p] = Token("Atom", 16)
    /\ \E p \in 1..Len(tokens) : tokens[p].k = "TripleBond"
    /\ \E p \in 1..Len(tokens) : tokens[p].k = "Digit"
    /\ Len(TokenValues(tokens, "Atom")) = 3

\* C14: an atom descriptor with the stereo marker "@" yields an atom of
\* chirality anticlockwise and one with "@@" an atom of chirality clockwise,
\* from the Evaluator and from Parser::parse.
C14_StereoMarker ==
    (IsChain(items) /\ Scanned) =>
        /\ status = "done" =>
              \A i \in 1..Len(atoms) :
                 atoms[i].chirality = AtomOfItem(items[2 * i - 1]).chirality
        /\ (status # "parse" /\ legacy.ok) =>
              \A i \in 1..Len(legacy.atoms) :
                 legacy.atoms[i].chirality = AtomOfItem(items[2 * i - 1]).chirality

\* the last item of the pattern is a descriptor cut short by the end of input
IsCut(its) == its # <<>> /\ its[Len(its)].k = "cut"

\* the number of tokens before the last LBrack token of ts
LastLBrack(ts) ==
    (CHOOSE p \in 1..Len(ts) :
        ts[p].k = "LBrack" /\ \A q \in (p + 1)..Len(ts) : ts[q].k # "LBrack") - 1

\* the scan has returned a token sequence and the parse has run on it
Parsed == status \notin {"scan", "parse"} /\ legacy # NoLegacy

\* C15: when the end of input is reached inside an atom descriptor, after
\* any of its parts, Parser::atom panics and returns no atom: Parser::parse
\* returns no result, and the atoms it had read before are those of the
\* complete descriptors.
C15_EofInAtom ==
    (IsCut(items) /\ Parsed) =>
        /\ ~ParserAtom(tokens, LastLBrack(tokens)).ok
        /\ ParserAtom(tokens, LastLBrack(tokens)).cur = Len(tokens) - 1
        /\ ~legacy.ok
        /\ Len(legacy.atoms) <= Len(WrittenIndices(items))

\* Parser::parse panicked on a descriptor cut right after the label
\* separator, written after an atom and a bond symbol
C15_Witness ==
    /\ Parsed
    /\ Len(items) = 3
    /\ items[3] = CutItem(":")
    /\ tokens[Len(tokens) - 1].k = "Colon"
    /\ Len(legacy.atoms) = 1
    /\ Len(legacy.bonds) = 1
    /\ ~legacy.ok

\* the p-th token of ts is inside the brackets of an atom descriptor
InBrackets(ts, p) ==
    \E q \in 1..(p - 1) :
        ts[q].k = "LBrack" /\ \A r \in (q + 1)..(p - 1) : ts[r].k # "RBrack"

\* C16: a bond parse that starts on a bond symbol consumes that one token
\* and yields the order of that symbol and nothing else (no ring marker), so
\* that each bond symbol gives its own bond and an integer next to it is left
\* unread.
C16_OneTokenPerBond ==
    Parsed =>
        \A c \in 0..(Len(tokens) - 2) :
            (peek(tokens, c).k \in DOMAIN BondSymbol /\ ~InBrackets(tokens, c + 1)) =>
                LET r == ParserBond(tokens, c)
                IN /\ r.ok
                   /\ r.cur = c + 1
                   /\ r.bond.order = BondSymbol[peek(tokens, c).k]
                   /\ r.bond.ring_marker = 0 - 1

\* C17: when the top-level call of Parser::parse returns, the cursor is on
\* the End token, every token before it consumed.
C17_ParseEndsOnEnd ==
    (Parsed /\ legacy.ok) =>
        /\ legacy.cur = Len(tokens) - 1
        /\ peek(tokens, legacy.cur).k = "End"

\* how many of the first n tokens of ts are of kind k
CountTokens(ts, n, k) == Cardinality({p \in 1..n : ts[p].k = k})

\* C20: when Parser::parse returns, every group-open token it consumed, each
\* one a grouping that returned, has its group-close token consumed as well.
C20_GroupingClosed ==
    (Parsed /\ legacy.ok) =>
        CountTokens(tokens, legacy.cur, "LParen") = CountTokens(tokens, legacy.cur, "RParen")

\* C18: every bond appended while a grouping is being evaluated, at any
\* depth, ring closure or not, is stored with atom1 <= atom2.
C18_GroupingBondsOrdered ==
    [][(stack # <<>> /\ Len(bonds') = Len(bonds) + 1)
           => bonds'[Len(bonds')].atom1 <= bonds'[Len(bonds')].atom2]_vars

\* a completed evaluation whose only bond closes, inside a grouping and from
\* atom 2, a label opened at atom 1 at top level: resolved as (2, 1), stored
\* as (1, 2)
C18_Witness ==
    /\ status = "done"
    /\ Len(exprs) = 3
    /\ is_connect(exprs[2])
    /\ is_grouping(exprs[3])
    /\ Len(exprs[3].g) = 3
    /\ is_atom(exprs[3].g[1])
    /\ exprs[3].g[1].a.mol_index = 2
    /\ bonds = <<Bond(1, 2, exprs[3].g[2].order)>>

\* the atom at the position of a closing bond: the nearest Atom expression
\* before it in its sequence; for a bond that starts a grouping, the atom
\* before the grouping; -1 for none
ClosingPositionAtom ==
    LET near == NearestAtomBefore(CurSeq, CurPos + 1)
    IN IF near # 0 - 1 THEN near
       ELSE IF stack # <<>> THEN BeforeGrouping
       ELSE 0 - 1

\* C19: the connection table is shared by the top level and all groupings:
\* wherever a label was opened and wherever the bond that closes it stands,
\* the close appends one bond that joins the opening atom and the atom at the
\* closing position.
C19_SharedTable ==
    [][(AtClose /\ OpeningAtom # 0 - 1 /\ ClosingPositionAtom # 0 - 1)
           => /\ Len(bonds') = Len(bonds) + 1
              /\ Endpoints(bonds'[Len(bonds')]) = {OpeningAtom, ClosingPositionAtom}]_vars

\* the run has ended: eval returned or a step panicked
Terminated == status \in {"done", "panic"}

\* every call of the parser on the scanned tokens returns, from any cursor
\* position c: Parser::atom and Parser::bond leave the cursor further on or
\* panic, also when called on the End token, where advance() does not move;
\* Parser::parse (and with it Parser::grouping) returns with the cursor
\* between c and the End token
ParserReturns ==
    status = "parse" =>
        \A c \in 0..(Len(tokens) - 1) :
            LET k == peek(tokens, c).k
                a == ParserAtom(tokens, c)
                b == ParserBond(tokens, c)
                r == ParseLoop(tokens, c, <<>>, <<>>, 0)
            IN /\ k = "End" => (advance(tokens, c) = c /\ ~a.ok /\ b.ok /\ b.cur = c)
               /\ k = "LBrack" => (a.cur > c \/ ~a.ok)
               /\ k \notin {"End", "LBrack", "LParen", "RParen"} => (b.cur > c \/ ~b.ok)
               /\ a.cur <= Len(tokens) - 1
               /\ b.cur <= Len(tokens) - 1
               /\ c <= r.cur /\ r.cur <= Len(tokens) - 1

\* an iteration of the loop of Evaluator::eval leaves the cursor further on,
\* and one of the loop of Evaluator::grouping ends the call, panics, or
\* leaves its iterator further on
LoopsAdvance ==
    /\ (AtTop /\ ~at_end) => (cur' > cur /\ cur' <= Len(exprs))
    /\ InGrouping =>
          \/ status' = "panic"
          \/ Len(stack') = Len(stack) - 1
          \/ /\ Len(stack') >= Len(stack)
             /\ stack'[Len(stack)].i > Top.i
             /\ stack'[Len(stack)].i <= Len(Top.g)

\* C11: for every input the pipeline scan, parse, eval ends, returning a
\* result or panicking: every parser call returns although advance() stays
\* on the End token, every iteration of the evaluator's loops advances its
\* cursor, and the run reaches its end.
C11_Terminates ==
    /\ []ParserReturns
    /\ [][LoopsAdvance]_vars
    /\ <>Terminated

\* eval has returned after evaluating a grouping nested in a grouping: every
\* loop of the pipeline has run and ended
C11_Witness ==
    /\ status = "done"
    /\ Len(tokens) >= 10
    /\ Depth(exprs) >= 2
    /\ Len(atoms) >= 2
    /\ cur = Len(exprs)

\* the mol_index values carried by the atoms of as
AtomIndices(as) == {as[p].mol_index : p \in 1..Len(as)}

\* the mol_index of the atom the next iteration appends, if it reads an atom:
\* the one a bond has just peeked at
PendingAtom ==
    IF AtTop /\ ~at_end /\ is_atom(exprs[cur + 1])
    THEN {exprs[cur + 1].a.mol_index}
    ELSE IF InGrouping /\ Top.i < Len(Top.g) /\ is_atom(Top.g[Top.i + 1])
    THEN {Top.g[Top.i + 1].a.mol_index}
    ELSE {}

\* C21: both endpoints of every bond are the mol_index of an atom of the
\* atom list, or of the atom that the next iteration appends; when the
\* evaluation has completed no atom is left to append, so no bond refers to
\* an index that no output atom carries.
C21_BondsReferToAtoms ==
    /\ \A b \in 1..Len(bonds) :
          /\ bonds[b].atom1 \in AtomIndices(atoms) \cup PendingAtom
          /\ bonds[b].atom2 \in AtomIndices(atoms) \cup PendingAtom
    /\ status = "done" => PendingAtom = {}

\* the evaluation has completed on a pattern with a grouping, its atoms of
\* distinct indices, with a bond to a following atom and a bond that closes
\* a label
C21_Witness ==
    /\ status = "done"
    /\ Depth(exprs) >= 1
    /\ Len(atoms) >= 2
    /\ IsDistinct(MolIndices(atoms))
    /\ Len(bonds) >= 2
    /\ ctab # <<>>
    /\ \E b \in 1..Len(bonds) : bonds[b].atom1 # bonds[b].atom2

\* the cursor values at which peek reads a token of ts
InBounds(ts) == 0..(Len(ts) - 1)

\* C22: on the token sequence scan returned, the cursor of the parser starts
\* inside the sequence and advance, the only assignment to it, keeps it
\* there without ever decreasing it; on End advance returns End and leaves
\* the cursor; so Parser::atom, Parser::bond and Parser::parse, started at
\* any token, leave the cursor at or after where they found it and inside the
\* sequence, and so does the cursor Parser::parse returns with.
C22_ForwardCursor ==
    /\ status = "parse" =>
          /\ 0 \in InBounds(tokens)
          /\ \A c \in InBounds(tokens) :
                /\ advance(tokens, c) \in InBounds(tokens)
                /\ advance(tokens, c) >= c
                /\ advance(tokens, c) <= c + 1
                /\ peek(tokens, c).k = "End" =>
                      (advance(tokens, c) = c /\ advance_ret(tokens, c).k = "End")
          /\ \A c \in InBounds(tokens) :
                /\ ParserAtom(tokens, c).cur \in c..(Len(tokens) - 1)
                /\ ParserBond(tokens, c).cur \in c..(Len(tokens) - 1)
                /\ ParseLoop(tokens, c, <<>>, <<>>, 0).cur \in c..(Len(tokens) - 1)
    /\ Parsed => legacy.cur \in InBounds(tokens)

\* Parser::parse has returned with its cursor on the End token of a pattern
\* with a grouping, a label and a bond symbol
C22_Witness ==
    /\ Parsed
    /\ legacy.ok
    /\ Len(tokens) >= 10
    /\ legacy.cur = Len(tokens) - 1
    /\ \E p \in 1..Len(tokens) : tokens[p].k = "RParen"
    /\ \E p \in 1..Len(tokens) : tokens[p].k = "Digit"
    /\ Len(legacy.bonds) >= 1

TypeOK == status \in {"scan", "parse", "running", "done", "panic"}

====
